---- MODULE Spec2Model ----
(***************************************************************************)
(* Netlist-Generator: the netlist equivalence verifier (compare_netlists   *)
(* of "Methods Results Comparator.py") and the node assigner               *)
(* (overlay_and_find_nodes_with_connected_regions of "Method 2.py").       *)
(***************************************************************************)
EXTENDS Integers, Sequences, FiniteSets, TLC

(***************************************************************************)
(* Bounds of the verifier's inputs.                                        *)
(***************************************************************************)
MaxNode == 3
MaxLen == 2
MaxComps == 3
MaxEntries == 4

(***************************************************************************)
(* Bounds of the node assigner's inputs: the grid, the number of wire      *)
(* pixels of the mask and the number of connection points of all           *)
(* components together.                                                    *)
(***************************************************************************)
Width == 4
Height == 2
MaxWire == 3
MaxPoints == 2

VARIABLES
  ground_truth,     \* compare_netlists argument: sequence of node lists
  test_netlist,     \* compare_netlists argument: sequence of node lists
  locked_nodes,     \* dict of compare_netlists
  node_mapping,     \* dict of compare_netlists (object passed to backtrack(0, ..))
  used_components,  \* set of test components (by identity = position in test_netlist)
  stack,            \* activation records of backtrack, outermost first
  ret,              \* value returned by the backtrack call that ended last
  result,           \* what compare_netlists returned
  steps,            \* steps of the search taken so far
  masked_edges,     \* the wire mask: pixel <<y, x>> -> 0 or 1
  labeled_edges,    \* connected_label(masked_edges)[0]: pixel <<y, x>> -> label
  num_regions,      \* connected_label(masked_edges)[1]
  components,       \* sequence of [label, connection_points]
  region_to_node,   \* dict of the first pass
  unique_nodes,
  current_node_id,
  results_file,     \* lines [label, nodes] of <image>.txt
  first_nodes,      \* per component: node_id of each connection point (0: none)
  region_top_left,
  sorted_regions,
  new_region_to_node,
  adjusted_results, \* lines [label, nodes] of <image>_adjusted.txt
  adjusted_nodes,   \* per component: adjusted node_id of each connection point
  num_nodes,        \* len(unique_nodes) as returned
  apc,              \* where overlay_and_find_nodes_with_connected_regions is
  ci,               \* index of the component the current loop is at
  run,              \* 1: first processing of the mask, 2: the mask processed again
  baseline          \* what the first processing produced

vvars == <<ground_truth, test_netlist, locked_nodes, node_mapping,
           used_components, stack, ret, result, steps>>

avars == <<masked_edges, labeled_edges, num_regions, components, region_to_node,
           unique_nodes, current_node_id, results_file, first_nodes,
           region_top_left, sorted_regions, new_region_to_node, adjusted_results,
           adjusted_nodes, num_nodes, apc, ci, run, baseline>>

vars == <<vvars, avars>>

----------------------------------------------------------------------------
(* Helpers *)

Range(s) == {s[k] : k \in DOMAIN s}

EmptyDict == [n \in {} |-> 0]

DictSet(m, k, v) == [n \in (DOMAIN m) \cup {k} |-> IF n = k THEN v ELSE m[n]]

Nodes == 1..MaxNode

\* node lists of one component, as read_netlist parses a line
NodeLists == UNION {[1..n -> Nodes] : n \in 1..MaxLen}

RECURSIVE TotalNodes(_)
TotalNodes(netlist) ==
  IF netlist = <<>> THEN 0 ELSE Len(netlist[1]) + TotalNodes(Tail(netlist))

\* netlists of MaxComps components and MaxEntries node entries at most
Netlists ==
  {netlist \in UNION {[1..n -> NodeLists] : n \in 0..MaxComps} :
     TotalNodes(netlist) <= MaxEntries}

----------------------------------------------------------------------------
(* Methods Results Comparator.py *)

\* a comparison of the lists instead of the sets
is_list_match(ground_component, test_component) ==
  ground_component = test_component

is_set_match(ground_component, test_component) ==
  Range(ground_component) = Range(test_component)

\* line 34 with > for >=
AllMatchedOffByOne(ground_truth_index) == ground_truth_index > Len(ground_truth)

\* line 34: ground_truth_index >= len(ground_truth)
AllMatched(ground_truth_index) == ground_truth_index >= Len(ground_truth)

\* no test component taken for used
NeverUsed(tc, used) == FALSE

\* lines 43, 70: test_component in used_components
IsUsed(tc, used) == tc \in used

\* the test component left marked
KeepMarked(used, tc) == used

\* lines 65, 106: used_components.remove(test_component)
Unmark(used, tc) == used \ {tc}

\* the comparison of line 75 with <= for !=
NodeCountNotGreater(g, t) == Len(t) <= Len(g)

\* line 75: len(test_component.nodes) != len(ground_truth_component.nodes)
NodeCountMismatch(g, t) == Len(t) /= Len(g)

\* lines 55-57: every node of the ground-truth component is mapped to itself
SetMatchMapping(m, g) ==
  [n \in (DOMAIN m) \cup Range(g) |-> IF n \in Range(g) THEN n ELSE m[n]]

\* the conflict test reading the mapping in effect
MappingInEffect(locked, mapping) == mapping

\* lines 89-90: the dict the conflict test reads is locked_nodes
ConflictDict(locked, mapping) == locked

\* lines 84-96: the positional loop, leaving at the first locked conflict
RECURSIVE DynamicMapping(_, _, _, _, _)
DynamicMapping(m, g, t, locked, k) ==
  IF k > Len(g) THEN [valid_mapping |-> TRUE, mapping |-> m]
  ELSE IF g[k] \in DOMAIN locked /\ locked[g[k]] /= t[k]
       THEN [valid_mapping |-> FALSE, mapping |-> m]
       ELSE DynamicMapping(IF g[k] \notin DOMAIN m THEN DictSet(m, g[k], t[k]) ELSE m,
                           g, t, locked, k + 1)

Top == stack[Len(stack)]

\* a call of backtrack. entry_used, before_used, before_mapping and failed are
\* history read by no action: used_components at the call's entry,
\* used_components and current_mapping as the last attempt found them, and
\* whether an attempt of this call has failed
NewFrame(idx, m, used) ==
  [idx |-> idx, pc |-> "entry", i |-> 1,
   current_mapping |-> m, original_mapping |-> EmptyDict, shared |-> TRUE,
   entry_used |-> used, before_used |-> {}, before_mapping |-> EmptyDict,
   failed |-> FALSE]

\* frame j's current_mapping is the very dict object frame d mutates:
\* every frame between still holds the parameter it was called with
Alias(j, d) == \A k \in (j + 1)..d : stack[k].shared

\* an in-place mutation of the top frame's dict, seen through every alias
WriteThrough(d, m) ==
  [j \in 1..d |-> IF Alias(j, d) THEN [stack[j] EXCEPT !.current_mapping = m]
                  ELSE stack[j]]

\* the node assigner is not running
AIdle ==
  /\ masked_edges = <<>> /\ labeled_edges = <<>> /\ num_regions = 0
  /\ components = <<>> /\ region_to_node = EmptyDict /\ unique_nodes = {}
  /\ current_node_id = 1 /\ results_file = <<>> /\ first_nodes = <<>>
  /\ region_top_left = <<>> /\ sorted_regions = <<>>
  /\ new_region_to_node = EmptyDict
  /\ adjusted_results = <<>> /\ adjusted_nodes = <<>> /\ num_nodes = 0
  /\ apc = "idle" /\ ci = 0 /\ run = 0 /\ baseline = <<>>

VInit ==
  /\ AIdle
  /\ ground_truth \in Netlists
  /\ test_netlist \in Netlists
  /\ locked_nodes = EmptyDict
  /\ node_mapping = EmptyDict
  /\ used_components = {}
  /\ stack = <<NewFrame(0, EmptyDict, {})>>
  /\ ret = "none"
  /\ result = "running"
  /\ steps = 0

Running == result = "running" /\ stack /= <<>>

\* line 34-36: all components matched
BaseCase ==
  /\ Running /\ Top.pc = "entry"
  /\ AllMatched(Top.idx)
  /\ stack' = SubSeq(stack, 1, Len(stack) - 1)
  /\ ret' = "True"
  /\ steps' = steps + 1
  /\ UNCHANGED <<avars, ground_truth, test_netlist, locked_nodes, node_mapping,
                 used_components, result>>

\* line 38: ground_truth[ground_truth_index]
BeginComponent ==
  /\ Running /\ Top.pc = "entry"
  /\ ~AllMatched(Top.idx)
  /\ IF Top.idx + 1 \in DOMAIN ground_truth
     THEN /\ stack' = [stack EXCEPT ![Len(stack)].pc = "stepA", ![Len(stack)].i = 1]
          /\ UNCHANGED result
     ELSE /\ stack' = <<>>
          /\ result' = "IndexError"
  /\ steps' = steps + 1
  /\ UNCHANGED <<avars, ground_truth, test_netlist, locked_nodes, node_mapping,
                 used_components, ret>>

\* lines 42-48: a used test component or one that is no set match is passed over
SetMatchSkip ==
  /\ Running /\ Top.pc = "stepA" /\ Top.i <= Len(test_netlist)
  /\ \/ IsUsed(Top.i, used_components)
     \/ ~is_set_match(ground_truth[Top.idx + 1], test_netlist[Top.i])
  /\ stack' = [stack EXCEPT ![Len(stack)].i = @ + 1]
  /\ steps' = steps + 1
  /\ UNCHANGED <<avars, ground_truth, test_netlist, locked_nodes, node_mapping,
                 used_components, ret, result>>

\* lines 48-60: set match found, recurse
SetMatchCommit ==
  /\ Running /\ Top.pc = "stepA" /\ Top.i <= Len(test_netlist)
  /\ ~IsUsed(Top.i, used_components)
  /\ is_set_match(ground_truth[Top.idx + 1], test_netlist[Top.i])
  /\ LET d == Len(stack)
         m == SetMatchMapping(Top.current_mapping, ground_truth[Top.idx + 1])
         st == [WriteThrough(d, m) EXCEPT ![d].original_mapping = Top.current_mapping,
                                          ![d].pc = "callA",
                                          ![d].before_used = used_components,
                                          ![d].before_mapping = Top.current_mapping]
     IN /\ stack' = Append(st, NewFrame(Top.idx + 1, m, used_components \cup {Top.i}))
        /\ node_mapping' = IF Alias(0, d) THEN m ELSE node_mapping
  /\ used_components' = used_components \cup {Top.i}
  /\ steps' = steps + 1
  /\ UNCHANGED <<avars, ground_truth, test_netlist, locked_nodes, ret, result>>

\* lines 63-66: the recursion failed
SetMatchRevert ==
  /\ Running /\ Top.pc = "callA" /\ ret = "False"
  /\ stack' = [stack EXCEPT ![Len(stack)].current_mapping = Top.original_mapping,
                            ![Len(stack)].shared = FALSE,
                            ![Len(stack)].pc = "stepA",
                            ![Len(stack)].i = @ + 1,
                            ![Len(stack)].failed = TRUE]
  /\ used_components' = Unmark(used_components, Top.i)
  /\ ret' = "none"
  /\ steps' = steps + 1
  /\ UNCHANGED <<avars, ground_truth, test_netlist, locked_nodes, node_mapping, result>>

\* line 69: the first loop is over, the second begins
BeginDynamic ==
  /\ Running /\ Top.pc = "stepA" /\ Top.i > Len(test_netlist)
  /\ stack' = [stack EXCEPT ![Len(stack)].pc = "stepB", ![Len(stack)].i = 1]
  /\ steps' = steps + 1
  /\ UNCHANGED <<avars, ground_truth, test_netlist, locked_nodes, node_mapping,
                 used_components, ret, result>>

\* lines 70-77
DynamicSkip ==
  /\ Running /\ Top.pc = "stepB" /\ Top.i <= Len(test_netlist)
  /\ \/ IsUsed(Top.i, used_components)
     \/ NodeCountMismatch(ground_truth[Top.idx + 1], test_netlist[Top.i])
  /\ stack' = [stack EXCEPT ![Len(stack)].i = @ + 1]
  /\ steps' = steps + 1
  /\ UNCHANGED <<avars, ground_truth, test_netlist, locked_nodes, node_mapping,
                 used_components, ret, result>>

\* lines 79-101 (and 104-107 when the mapping is not valid)
DynamicAttempt ==
  /\ Running /\ Top.pc = "stepB" /\ Top.i <= Len(test_netlist)
  /\ ~IsUsed(Top.i, used_components)
  /\ ~NodeCountMismatch(ground_truth[Top.idx + 1], test_netlist[Top.i])
  /\ LET d == Len(stack)
         r == DynamicMapping(Top.current_mapping, ground_truth[Top.idx + 1],
                             test_netlist[Top.i],
                             ConflictDict(locked_nodes, Top.current_mapping), 1)
         st == [WriteThrough(d, r.mapping) EXCEPT
                  ![d].original_mapping = Top.current_mapping,
                  ![d].before_used = used_components,
                  ![d].before_mapping = Top.current_mapping]
     IN /\ node_mapping' = IF Alias(0, d) THEN r.mapping ELSE node_mapping
        /\ IF r.valid_mapping
           THEN /\ stack' = Append([st EXCEPT ![d].pc = "callB"],
                                   NewFrame(Top.idx + 1, r.mapping,
                                            used_components \cup {Top.i}))
                /\ used_components' = used_components \cup {Top.i}
           ELSE /\ stack' = [st EXCEPT ![d].current_mapping = Top.current_mapping,
                                       ![d].shared = FALSE,
                                       ![d].i = @ + 1,
                                       ![d].failed = TRUE]
                /\ used_components' = Unmark(used_components, Top.i)
  /\ steps' = steps + 1
  /\ UNCHANGED <<avars, ground_truth, test_netlist, locked_nodes, ret, result>>

\* lines 104-107: the recursion failed
DynamicRevert ==
  /\ Running /\ Top.pc = "callB" /\ ret = "False"
  /\ stack' = [stack EXCEPT ![Len(stack)].current_mapping = Top.original_mapping,
                            ![Len(stack)].shared = FALSE,
                            ![Len(stack)].pc = "stepB",
                            ![Len(stack)].i = @ + 1,
                            ![Len(stack)].failed = TRUE]
  /\ used_components' = Unmark(used_components, Top.i)
  /\ ret' = "none"
  /\ steps' = steps + 1
  /\ UNCHANGED <<avars, ground_truth, test_netlist, locked_nodes, node_mapping, result>>

\* line 109
ReturnFalse ==
  /\ Running /\ Top.pc = "stepB" /\ Top.i > Len(test_netlist)
  /\ stack' = SubSeq(stack, 1, Len(stack) - 1)
  /\ ret' = "False"
  /\ steps' = steps + 1
  /\ UNCHANGED <<avars, ground_truth, test_netlist, locked_nodes, node_mapping,
                 used_components, result>>

\* lines 60-61, 101-102: a successful recursion is passed up at once
ReturnTrue ==
  /\ Running /\ Top.pc \in {"callA", "callB"} /\ ret = "True"
  /\ stack' = SubSeq(stack, 1, Len(stack) - 1)
  /\ steps' = steps + 1
  /\ UNCHANGED <<avars, ground_truth, test_netlist, locked_nodes, node_mapping,
                 used_components, ret, result>>

\* line 113
CompareReturn ==
  /\ result = "running" /\ stack = <<>>
  /\ result' = ret
  /\ steps' = steps + 1
  /\ UNCHANGED <<avars, ground_truth, test_netlist, locked_nodes, node_mapping,
                 used_components, stack, ret>>

VNext ==
  \/ BaseCase
  \/ BeginComponent
  \/ SetMatchSkip
  \/ SetMatchCommit
  \/ SetMatchRevert
  \/ BeginDynamic
  \/ DynamicSkip
  \/ DynamicAttempt
  \/ DynamicRevert
  \/ ReturnFalse
  \/ ReturnTrue
  \/ CompareReturn

SpecVerifier == VInit /\ [][VNext]_vars

----------------------------------------------------------------------------
(* Method 2.py: inputs *)

Max(a, b) == IF a >= b THEN a ELSE b
Min(a, b) == IF a <= b THEN a ELSE b

\* pixels are <<y, x>> (row, column) as numpy indexes them
Pixels == (0..(Height - 1)) \X (0..(Width - 1))

\* connection points are <<px, py>>: those of the grid
GridPoints == (0..(Width - 1)) \X (0..(Height - 1))

\* one connection point beyond each side of the grid
OutsidePoints == {<<0 - 1, 0>>, <<Width, 0>>, <<0, 0 - 1>>, <<0, Height>>}

Points == GridPoints \cup OutsidePoints

Labels == {"R1", "Gnd"}

Masks ==
  {[p \in Pixels |-> IF p \in w THEN 1 ELSE 0] :
     w \in {v \in SUBSET Pixels : Cardinality(v) <= MaxWire}}

\* components of at most m connection points each
ComponentSet(m) ==
  [label : Labels, connection_points : UNION {[1..n -> Points] : n \in 1..m}]

RECURSIVE TotalPoints(_)
TotalPoints(cs) ==
  IF cs = <<>> THEN 0
  ELSE Len(cs[1].connection_points) + TotalPoints(Tail(cs))

\* n components, one point at least each, share MaxPoints points at most
ComponentLists ==
  {cs \in UNION {[1..n -> ComponentSet(MaxPoints - n + 1)] : n \in 0..MaxPoints} :
     TotalPoints(cs) <= MaxPoints}

\* the label compared as it is
NoUpper(label) == label

\* str.upper() on the labels in use
Upper(label) == IF label = "Gnd" THEN "GND" ELSE label

Permutations1(n) == {f \in [1..n -> 1..n] : \A a, b \in 1..n : a /= b => f[a] /= f[b]}

----------------------------------------------------------------------------
(* Method 2.py: the region labeler (scipy.ndimage.label, 4-connectivity) *)

Wire(mask) == {p \in DOMAIN mask : mask[p] > 0}

Adjacent(p, q) ==
  \/ p[1] = q[1] /\ (p[2] - q[2] = 1 \/ q[2] - p[2] = 1)
  \/ p[2] = q[2] /\ (p[1] - q[1] = 1 \/ q[1] - p[1] = 1)

RECURSIVE Grow(_, _)
Grow(S, wire) ==
  LET N == S \cup {q \in wire : \E p \in S : Adjacent(p, q)}
  IN IF N = S THEN S ELSE Grow(N, wire)

RegionsOf(mask) == {Grow({p}, Wire(mask)) : p \in Wire(mask)}

RasterBefore(p, q) == p[1] < q[1] \/ (p[1] = q[1] /\ p[2] < q[2])

RasterFirst(S) == CHOOSE p \in S : \A q \in S : q = p \/ RasterBefore(p, q)

\* labels in the order the raster scan meets the regions, 0 for the background
connected_label(mask) ==
  LET regions == RegionsOf(mask)
      lab(R) == 1 + Cardinality({Q \in regions : RasterBefore(RasterFirst(Q), RasterFirst(R))})
  IN [labels |-> [p \in DOMAIN mask |->
                    IF mask[p] > 0 THEN lab(Grow({p}, Wire(mask))) ELSE 0],
      num |-> Cardinality(regions)]

----------------------------------------------------------------------------
(* Method 2.py: connection of one point *)

\* the indices a[start:stop] selects on an axis of n entries, start >= 0
PySlice(start, stop, n) ==
  start..((IF stop < 0 THEN Max(stop + n, 0) ELSE Min(stop, n)) - 1)

\* lines 77-81: the pixels of the clipped kernel_size = 3 neighbourhood
Neighborhood(px, py) ==
  PySlice(Max(0, py - 1), Min(Height, py + 2), Height)
    \X PySlice(Max(0, px - 1), Min(Width, px + 2), Width)

\* the squared distance with the point's coordinates transposed
SqDistTransposed(py, px, p) ==
  (p[1] - px) * (p[1] - px) + (p[2] - py) * (p[2] - py)

\* line 70: distance of edge point p = <<y, x>> from (py, px), squared
SqDist(py, px, p) ==
  (p[1] - py) * (p[1] - py) + (p[2] - px) * (p[2] - px)

\* lines 66-73: the first edge point, in argwhere's raster order, at least distance
find_nearest_edge(mask, px, py) ==
  LET edge_points == Wire(mask)
  IN IF edge_points = {} THEN "None"
     ELSE CHOOSE p \in edge_points :
            \A q \in edge_points :
              \/ q = p
              \/ SqDist(py, px, p) < SqDist(py, px, q)
              \/ SqDist(py, px, p) = SqDist(py, px, q) /\ RasterBefore(p, q)

\* lines 75-91: [is_connected, connection_point = <<x, y>>]
is_point_connected_or_nearest(mask, px, py) ==
  IF \E p \in Neighborhood(px, py) : mask[p] > 0
  THEN [is_connected |-> TRUE, connection_point |-> <<px, py>>]
  ELSE LET nearest_edge == find_nearest_edge(mask, px, py)
       IN IF nearest_edge /= "None"
          THEN [is_connected |-> TRUE,
                connection_point |-> <<nearest_edge[2], nearest_edge[1]>>]
          ELSE [is_connected |-> FALSE, connection_point |-> "None"]

\* lines 163, 189, 264
OutOfBounds(px, py) == py >= Height \/ px >= Width

\* labeled_edges[y, x]; a negative index counts from the end
LabelAt(y, x) ==
  labeled_edges[<<IF y < 0 THEN y + Height ELSE y, IF x < 0 THEN x + Width ELSE x>>]

\* lines 192-195: the region of a point (0: none)
RegionOfPoint(px, py) ==
  LET c == is_point_connected_or_nearest(masked_edges, px, py)
  IN IF c.is_connected
     THEN LabelAt(c.connection_point[2], c.connection_point[1])
     ELSE 0

\* list(set(connected_nodes)): small ints come out ascending
RECURSIVE ListOfSet(_)
ListOfSet(S) ==
  IF S = {} THEN <<>>
  ELSE LET m == CHOOSE a \in S : \A b \in S : a <= b
       IN <<m>> \o ListOfSet(S \ {m})

Positive(n) == n > 0

\* the identifier kept for the next region
SameNodeId(id) == id

\* line 199: current_node_id += 1
NextNodeId(id) == id + 1

\* the node list written as collected, one entry per connected point
KeepNodes(connected_nodes) == connected_nodes

\* lines 205, 276: list(set(connected_nodes))
DedupNodes(connected_nodes) == ListOfSet(Range(connected_nodes))

\* a line written for every component
AlwaysWritten(connected_nodes) == TRUE

\* lines 206, 277: if connected_nodes
HasNodes(connected_nodes) == connected_nodes /= <<>>

\* lines 187-202: the connection points of one component, in order
RECURSIVE FirstPassPoints(_, _, _)
FirstPassPoints(points, k, st) ==
  IF k > Len(points) THEN st
  ELSE LET px == points[k][1]
           py == points[k][2]
           region == IF OutOfBounds(px, py) THEN 0 ELSE RegionOfPoint(px, py)
       IN IF region > 0
          THEN LET known == region \in DOMAIN st.region_to_node
                   rtn == IF known THEN st.region_to_node
                          ELSE DictSet(st.region_to_node, region, st.current_node_id)
               IN FirstPassPoints(points, k + 1,
                    [region_to_node |-> rtn,
                     current_node_id |-> IF known THEN st.current_node_id
                                         ELSE NextNodeId(st.current_node_id),
                     unique_nodes |-> st.unique_nodes \cup {rtn[region]},
                     by_point |-> Append(st.by_point, rtn[region])])
          ELSE FirstPassPoints(points, k + 1,
                    [st EXCEPT !.by_point = Append(st.by_point, 0)])

\* lines 262-273
AdjustedPoints(points, nrtn) ==
  [k \in DOMAIN points |->
     LET px == points[k][1]
         py == points[k][2]
         region == IF OutOfBounds(px, py) THEN 0 ELSE RegionOfPoint(px, py)
     IN IF region > 0 /\ region \in DOMAIN nrtn THEN nrtn[region] ELSE 0]

----------------------------------------------------------------------------
(* Method 2.py: the canonical renumbering *)

\* line 220: np.lexsort((x, y)) orders by y, then x
LexBefore(p, q) == p[1] < q[1] \/ (p[1] = q[1] /\ p[2] < q[2])

\* lines 216-221
RegionTopLeft ==
  [region \in {r \in 1..num_regions : \E p \in Pixels : labeled_edges[p] = r} |->
     LET pixels == {p \in Pixels : labeled_edges[p] = region}
     IN CHOOSE p \in pixels : \A q \in pixels : q = p \/ LexBefore(p, q)]

\* the sort key with the coordinates swapped: (x, y)
SortKeyBeforeXY(p, q) == p[2] < q[2] \/ (p[2] = q[2] /\ p[1] < q[1])

\* line 224: key (y, x)
SortKeyBefore(p, q) == p[1] < q[1] \/ (p[1] = q[1] /\ p[2] < q[2])

\* the regions left in the order of their labels
UnsortedRegions(rtl) ==
  LET rs == DOMAIN rtl
  IN [k \in 1..Cardinality(rs) |->
        LET r == CHOOSE a \in rs : Cardinality({b \in rs : b < a}) = k - 1
        IN <<r, rtl[r]>>]

\* line 224: sorted(region_top_left.items(), key = (y, x))
SortedRegions(rtl) ==
  LET rs == DOMAIN rtl
  IN [k \in 1..Cardinality(rs) |->
        LET r == CHOOSE a \in rs :
                   Cardinality({b \in rs : SortKeyBefore(rtl[b], rtl[a])}) = k - 1
        IN <<r, rtl[r]>>]

\* the first-pass identifiers kept
KeepFirstPassIds(sorted, rtn) == rtn

\* lines 227-232
NewRegionToNode(sorted, rtn) ==
  [region \in {sorted[k][1] : k \in DOMAIN sorted} \cap DOMAIN rtn |->
     LET pos == CHOOSE k \in DOMAIN sorted : sorted[k][1] = region
     IN 1 + Cardinality({j \in 1..(pos - 1) : sorted[j][1] \in DOMAIN rtn})]

----------------------------------------------------------------------------
(* Method 2.py: overlay_and_find_nodes_with_connected_regions *)

\* compare_netlists is not running
VIdle ==
  /\ ground_truth = <<>> /\ test_netlist = <<>> /\ locked_nodes = EmptyDict
  /\ node_mapping = EmptyDict /\ used_components = {} /\ stack = <<>>
  /\ ret = "none" /\ result = "idle" /\ steps = 0

\* lines 152-156 and the state of a fresh call
Fresh ==
  /\ region_to_node = EmptyDict
  /\ unique_nodes = {}
  /\ current_node_id = 1
  /\ results_file = <<>>
  /\ first_nodes = <<>>
  /\ region_top_left = <<>>
  /\ sorted_regions = <<>>
  /\ new_region_to_node = EmptyDict
  /\ adjusted_results = <<>>
  /\ adjusted_nodes = <<>>
  /\ num_nodes = 0
  /\ apc = "first"
  /\ ci = 1

AInit ==
  /\ VIdle
  /\ masked_edges \in Masks
  /\ labeled_edges = connected_label(masked_edges).labels
  /\ num_regions = connected_label(masked_edges).num
  /\ components \in ComponentLists
  /\ Fresh
  /\ run = 1
  /\ baseline = <<>>

IsGnd(component) == Upper(component.label) = "GND"

\* lines 181-184
FirstPassSkipGnd ==
  /\ apc = "first" /\ ci <= Len(components)
  /\ IsGnd(components[ci])
  /\ first_nodes' = Append(first_nodes, <<>>)
  /\ ci' = ci + 1
  /\ UNCHANGED <<vvars, masked_edges, labeled_edges, num_regions, components,
                 region_to_node, unique_nodes, current_node_id, results_file,
                 region_top_left, sorted_regions, new_region_to_node,
                 adjusted_results, adjusted_nodes, num_nodes, apc, run, baseline>>

\* lines 186-208
FirstPassComponent ==
  /\ apc = "first" /\ ci <= Len(components)
  /\ ~IsGnd(components[ci])
  /\ LET st == FirstPassPoints(components[ci].connection_points, 1,
                 [region_to_node |-> region_to_node,
                  current_node_id |-> current_node_id,
                  unique_nodes |-> unique_nodes,
                  by_point |-> <<>>])
         connected_nodes == DedupNodes(SelectSeq(st.by_point, Positive))
     IN /\ region_to_node' = st.region_to_node
        /\ current_node_id' = st.current_node_id
        /\ unique_nodes' = st.unique_nodes
        /\ first_nodes' = Append(first_nodes, st.by_point)
        /\ results_file' =
             IF HasNodes(connected_nodes)
             THEN Append(results_file,
                         [label |-> components[ci].label, nodes |-> connected_nodes])
             ELSE results_file
  /\ ci' = ci + 1
  /\ UNCHANGED <<vvars, masked_edges, labeled_edges, num_regions, components,
                 region_top_left, sorted_regions, new_region_to_node,
                 adjusted_results, adjusted_nodes, num_nodes, apc, run, baseline>>

\* lines 215-232
Renumber ==
  /\ apc = "first" /\ ci > Len(components)
  /\ region_top_left' = RegionTopLeft
  /\ sorted_regions' = SortedRegions(RegionTopLeft)
  /\ new_region_to_node' = NewRegionToNode(SortedRegions(RegionTopLeft), region_to_node)
  /\ apc' = "adjusted"
  /\ ci' = 1
  /\ UNCHANGED <<vvars, masked_edges, labeled_edges, num_regions, components,
                 region_to_node, unique_nodes, current_node_id, results_file,
                 first_nodes, adjusted_results, adjusted_nodes, num_nodes, run,
                 baseline>>

\* lines 256-259
AdjustedSkipGnd ==
  /\ apc = "adjusted" /\ ci <= Len(components)
  /\ IsGnd(components[ci])
  /\ adjusted_nodes' = Append(adjusted_nodes, <<>>)
  /\ ci' = ci + 1
  /\ UNCHANGED <<vvars, masked_edges, labeled_edges, num_regions, components,
                 region_to_node, unique_nodes, current_node_id, results_file,
                 first_nodes, region_top_left, sorted_regions, new_region_to_node,
                 adjusted_results, num_nodes, apc, run, baseline>>

\* lines 261-279
AdjustedComponent ==
  /\ apc = "adjusted" /\ ci <= Len(components)
  /\ ~IsGnd(components[ci])
  /\ LET by_point == AdjustedPoints(components[ci].connection_points,
                                    new_region_to_node)
         adjusted_connected_nodes == DedupNodes(SelectSeq(by_point, Positive))
     IN /\ adjusted_nodes' = Append(adjusted_nodes, by_point)
        /\ adjusted_results' =
             IF HasNodes(adjusted_connected_nodes)
             THEN Append(adjusted_results,
                         [label |-> components[ci].label,
                          nodes |-> adjusted_connected_nodes])
             ELSE adjusted_results
  /\ ci' = ci + 1
  /\ UNCHANGED <<vvars, masked_edges, labeled_edges, num_regions, components,
                 region_to_node, unique_nodes, current_node_id, results_file,
                 first_nodes, region_top_left, sorted_regions, new_region_to_node,
                 num_nodes, apc, run, baseline>>

\* line 282
AssignerReturn ==
  /\ apc = "adjusted" /\ ci > Len(components)
  /\ num_nodes' = Cardinality(unique_nodes)
  /\ apc' = "done"
  /\ UNCHANGED <<vvars, masked_edges, labeled_edges, num_regions, components,
                 region_to_node, unique_nodes, current_node_id, results_file,
                 first_nodes, region_top_left, sorted_regions, new_region_to_node,
                 adjusted_results, adjusted_nodes, ci, run, baseline>>

\* a fresh call: lines 152-156
Restart ==
  /\ region_to_node' = EmptyDict
  /\ unique_nodes' = {}
  /\ current_node_id' = 1
  /\ results_file' = <<>>
  /\ first_nodes' = <<>>
  /\ region_top_left' = <<>>
  /\ sorted_regions' = <<>>
  /\ new_region_to_node' = EmptyDict
  /\ adjusted_results' = <<>>
  /\ adjusted_nodes' = <<>>
  /\ num_nodes' = 0
  /\ apc' = "first"
  /\ ci' = 1

\* what a finished call leaves behind
Outcome(kind, perm) ==
  [kind |-> kind, perm |-> perm,
   labeled_edges |-> labeled_edges, components |-> components,
   region_to_node |-> region_to_node, results_file |-> results_file,
   new_region_to_node |-> new_region_to_node,
   adjusted_results |-> adjusted_results, adjusted_nodes |-> adjusted_nodes,
   num_nodes |-> num_nodes]

\* the same mask and components processed again (process_all_images, lines
\* 327-331), the components in another order
RerunPermuted ==
  /\ apc = "done" /\ run = 1
  /\ \E perm \in Permutations1(Len(components)) :
       /\ \E k \in DOMAIN components : perm[k] /= k
       /\ components' = [k \in DOMAIN components |-> components[perm[k]]]
       /\ baseline' = Outcome("order", perm)
  /\ run' = 2
  /\ Restart
  /\ UNCHANGED <<vvars, masked_edges, labeled_edges, num_regions>>

\* the same mask and components processed again, the labeler numbering the
\* same regions otherwise
RerunRelabeled ==
  /\ apc = "done" /\ run = 1
  /\ \E sigma \in Permutations1(num_regions) :
       /\ \E r \in 1..num_regions : sigma[r] /= r
       /\ labeled_edges' = [p \in Pixels |->
                              IF labeled_edges[p] = 0 THEN 0
                              ELSE sigma[labeled_edges[p]]]
       /\ baseline' = Outcome("labels", sigma)
  /\ run' = 2
  /\ Restart
  /\ UNCHANGED <<vvars, masked_edges, num_regions, components>>

ANext ==
  \/ FirstPassSkipGnd
  \/ FirstPassComponent
  \/ Renumber
  \/ AdjustedSkipGnd
  \/ AdjustedComponent
  \/ AssignerReturn
  \/ RerunPermuted
  \/ RerunRelabeled

SpecAssigner == AInit /\ [][ANext]_vars

----------------------------------------------------------------------------
(* Properties of compare_netlists *)

NoNodeTwice(netlist) ==
  \A c \in DOMAIN netlist :
    \A a, b \in DOMAIN netlist[c] : a /= b => netlist[c][a] /= netlist[c][b]

NodesOf(netlist) == UNION {Range(netlist[c]) : c \in DOMAIN netlist}

Injections(S, T) == {f \in [S -> T] : \A a, b \in S : a /= b => f[a] /= f[b]}

\* a pairing of every ground-truth component with a distinct test component and
\* one injective renaming of ground-truth nodes under which paired node sets agree
Equivalent(gt, tn) ==
  \E p \in Injections(DOMAIN gt, DOMAIN tn) :
    \E f \in Injections(NodesOf(gt), Nodes) :
      \A c \in DOMAIN gt : {f[n] : n \in Range(gt[c])} = Range(tn[p[c]])

\* tn is gt with every node replaced, position by position, under one injective f
IsRenamingOf(tn, gt) ==
  /\ Len(tn) = Len(gt)
  /\ \E f \in Injections(NodesOf(gt), Nodes) :
       \A c \in DOMAIN gt :
         /\ Len(tn[c]) = Len(gt[c])
         /\ \A k \in DOMAIN gt[c] : tn[c][k] = f[gt[c][k]]

\* the two netlists have the same multiset of node sets
SameNodeSets(gt, tn) ==
  \A S \in {Range(gt[c]) : c \in DOMAIN gt} \cup {Range(tn[c]) : c \in DOMAIN tn} :
    Cardinality({c \in DOMAIN gt : Range(gt[c]) = S})
      = Cardinality({c \in DOMAIN tn : Range(tn[c]) = S})

ExampleN == <<(<<1, 2>>), (<<2, 3>>)>>
ExampleTopologyChange == <<(<<1, 2>>), (<<1, 3>>)>>
ExampleRenumbered == <<(<<2, 3>>), (<<3, 1>>)>>

\* C1: for netlists whose components list no node twice, compare_netlists returns
\* True only if a pairing of the ground-truth components with distinct test
\* components and one injective node renaming exist under which the node sets of
\* every pair agree.
C1_TrueOnlyIfEquivalent ==
  (result = "True" /\ NoNodeTwice(ground_truth) /\ NoNodeTwice(test_netlist))
    => Equivalent(ground_truth, test_netlist)

\* C2: for N = [R1 [1,2], R2 [2,3]] and N'' = [R1 [1,2], R2 [1,3]],
\* compare_netlists(N, N'') returns False.
C2_RejectsTopologyChange ==
  (ground_truth = ExampleN /\ test_netlist = ExampleTopologyChange
     /\ result /= "running")
    => result = "False"

C4_Reflexive ==
  (result /= "running" /\ test_netlist = ground_truth) => result = "True"

C4_Witness ==
  /\ test_netlist = ground_truth
  /\ Len(ground_truth) = MaxComps
  /\ \A c \in DOMAIN ground_truth : Range(ground_truth[c]) = Range(ground_truth[1])
  /\ result = "True"

\* C5: when the two netlists have the same multiset of node sets, the search never
\* enters the dynamic-mapping loop, no call of backtrack returns False (no set
\* match is backed out of), and compare_netlists returns True.
C5_SetMatchFastPath ==
  SameNodeSets(ground_truth, test_netlist)
    => /\ \A d \in DOMAIN stack : stack[d].pc \notin {"stepB", "callB"}
       /\ ret /= "False"
       /\ result \in {"running", "True"}

C5_Witness ==
  /\ SameNodeSets(ground_truth, test_netlist)
  /\ Len(ground_truth) = MaxComps
  /\ \A c \in DOMAIN ground_truth : ground_truth[c] /= test_netlist[c]
  /\ Range(ground_truth[1]) /= Range(test_netlist[1])
  /\ result = "True"

----------------------------------------------------------------------------
(* Properties of the node assigner *)

InGrid(pt) == pt[1] >= 0 /\ pt[1] < Width /\ pt[2] >= 0 /\ pt[2] < Height

Abs(a) == IF a < 0 THEN 0 - a ELSE a

\* the 3x3 neighbourhood of point pt = <<px, py>>, clipped to the grid
Around(pt) == {p \in Pixels : Abs(p[1] - pt[2]) <= 1 /\ Abs(p[2] - pt[1]) <= 1}

LabeledPixels == {p \in Pixels : labeled_edges[p] > 0}

RegionPixels(r) == {p \in Pixels : labeled_edges[p] = r}

\* squared Euclidean distance of pixel p = <<y, x>> from point pt = <<px, py>>
Euclid2(pt, p) == (p[2] - pt[1]) * (p[2] - pt[1]) + (p[1] - pt[2]) * (p[1] - pt[2])

NotGnd(c) == components[c].label \notin {"GND", "Gnd", "gnd", "gND", "GNd", "gNd", "GnD", "gnD"}

PositiveOf(seq) == {seq[k] : k \in DOMAIN seq} \ {0}

\* the components the first pass is through with
FirstPassed == 1..Len(first_nodes)

\* C6: every in-bounds connection point of a non-GND component with a labeled
\* pixel in its 3x3 neighbourhood is connected to a region of that
\* neighbourhood: the component's line lists the node of such a region, also
\* when the point's own pixel is background.
C6_DirectTest ==
  \A c \in FirstPassed :
    NotGnd(c) =>
      \A k \in DOMAIN components[c].connection_points :
        LET pt == components[c].connection_points[k]
        IN (InGrid(pt) /\ Around(pt) \cap LabeledPixels /= {})
             => \E p \in Around(pt) \cap LabeledPixels :
                  /\ labeled_edges[p] \in DOMAIN region_to_node
                  /\ region_to_node[labeled_edges[p]] \in PositiveOf(first_nodes[c])

\* the regions holding a labeled pixel at least distance from pt
NearestRegions(pt) ==
  {labeled_edges[p] : p \in {a \in LabeledPixels :
                               \A q \in LabeledPixels : Euclid2(pt, a) <= Euclid2(pt, q)}}

\* the point falls back to the nearest edge
FallsBack(pt) ==
  InGrid(pt) /\ Around(pt) \cap LabeledPixels = {} /\ LabeledPixels /= {}

\* C7: an in-bounds connection point with no labeled pixel in its 3x3
\* neighbourhood, in a mask with some labeled pixel, gets the node of a region
\* holding a labeled pixel at minimum Euclidean distance from it (in the first
\* pass and in the adjusted pass), never that of a region strictly farther away.
C7_NearestEdge ==
  /\ \A c \in FirstPassed :
       NotGnd(c) =>
         \A k \in DOMAIN components[c].connection_points :
           FallsBack(components[c].connection_points[k])
             => \E r \in NearestRegions(components[c].connection_points[k]) :
                  /\ r \in DOMAIN region_to_node
                  /\ first_nodes[c][k] = region_to_node[r]
  /\ \A c \in 1..Len(adjusted_nodes) :
       NotGnd(c) =>
         \A k \in DOMAIN components[c].connection_points :
           FallsBack(components[c].connection_points[k])
             => \E r \in NearestRegions(components[c].connection_points[k]) :
                  /\ r \in DOMAIN new_region_to_node
                  /\ adjusted_nodes[c][k] = new_region_to_node[r]

\* a fallen-back point of a processed component with a region strictly farther
\* away than the nearest one
C7_Witness ==
  /\ apc = "done"
  /\ \E c \in DOMAIN components :
       /\ NotGnd(c)
       /\ \E k \in DOMAIN components[c].connection_points :
            LET pt == components[c].connection_points[k]
            IN /\ FallsBack(pt)
               /\ (1..num_regions) \ NearestRegions(pt) /= {}
               /\ adjusted_nodes[c][k] > 0
               /\ first_nodes[c][k] > 0

\* the top-left-most pixel of region r: top row first, then left column
TopLeftMost(r) ==
  CHOOSE p \in RegionPixels(r) :
    \A q \in RegionPixels(r) : p[1] < q[1] \/ (p[1] = q[1] /\ p[2] <= q[2])

RowMajorBefore(p, q) == p[1] < q[1] \/ (p[1] = q[1] /\ p[2] < q[2])

\* the regions some connection point of a non-GND component resolves to
ResolvedRegions ==
  {RegionOfPoint(components[c].connection_points[k][1],
                 components[c].connection_points[k][2]) :
     <<c, k>> \in {ck \in (DOMAIN components) \X (1..MaxPoints) :
                     /\ NotGnd(ck[1])
                     /\ ck[2] \in DOMAIN components[ck[1]].connection_points
                     /\ ~OutOfBounds(components[ck[1]].connection_points[ck[2]][1],
                                     components[ck[1]].connection_points[ck[2]][2])}}
    \ {0}

AdjustedIds == UNION {Range(adjusted_results[l].nodes) : l \in DOMAIN adjusted_results}

\* C8: the node IDs of the adjusted netlist are exactly 1..k, k the number of
\* regions some connection point of an emitted component resolves to, and of two
\* such regions the one whose top-left-most pixel comes first in (row, column)
\* order has the smaller ID.
C8_CanonicalNumbering ==
  apc = "done"
    => /\ AdjustedIds = 1..Cardinality(ResolvedRegions)
       /\ ResolvedRegions = DOMAIN new_region_to_node
       /\ \A A, B \in ResolvedRegions :
            new_region_to_node[A] < new_region_to_node[B]
              <=> RowMajorBefore(TopLeftMost(A), TopLeftMost(B))

\* two regions in use whose row-major order is neither that of their columns nor
\* that of the first-pass identifiers
C8_Witness ==
  /\ apc = "done"
  /\ \E A, B \in ResolvedRegions :
       /\ RowMajorBefore(TopLeftMost(A), TopLeftMost(B))
       /\ TopLeftMost(B)[2] < TopLeftMost(A)[2]
       /\ region_to_node[B] < region_to_node[A]
       /\ new_region_to_node[A] = 1
       /\ new_region_to_node[B] = 2

\* the lines of a netlist file as a bag
LineCount(file, line) == Cardinality({l \in DOMAIN file : file[l] = line})

\* C9: for the same mask, the components processed in another order get the
\* same canonical node ID for every region and the same node set for every
\* component; the lines are the same up to their order.
C9_ComponentOrderIndependence ==
  (apc = "done" /\ run = 2 /\ baseline.kind = "order")
    => /\ new_region_to_node = baseline.new_region_to_node
       /\ \A k \in DOMAIN components :
            PositiveOf(adjusted_nodes[k])
              = PositiveOf(baseline.adjusted_nodes[baseline.perm[k]])
       /\ \A line \in Range(adjusted_results) \cup Range(baseline.adjusted_results) :
            LineCount(adjusted_results, line) = LineCount(baseline.adjusted_results, line)

\* the first-pass identifiers of the two runs differ
C9_Witness ==
  /\ apc = "done" /\ run = 2 /\ baseline.kind = "order"
  /\ region_to_node /= baseline.region_to_node
  /\ Cardinality(DOMAIN new_region_to_node) >= 2

\* C10: for the same mask and components, a labeler that numbers the same
\* regions by any other permutation of the labels gives exactly the same
\* adjusted netlist.
C10_RelabelInvariance ==
  (apc = "done" /\ run = 2 /\ baseline.kind = "labels")
    => /\ adjusted_results = baseline.adjusted_results
       /\ adjusted_nodes = baseline.adjusted_nodes

\* two regions in use, relabeled
C10_Witness ==
  /\ apc = "done" /\ run = 2 /\ baseline.kind = "labels"
  /\ Cardinality(AdjustedIds) >= 2
  /\ \E r \in DOMAIN new_region_to_node : baseline.perm[r] /= r

\* the label is "GND" whatever the case of its letters
IsGroundLabel(label) ==
  label \in {"GND", "Gnd", "gnd", "gND", "GNd", "gNd", "GnD", "gnD"}

\* C11: no line of the first-pass netlist or of the adjusted netlist carries a
\* label equal to "GND" without regard to case, also when the connection points
\* of the ground component lie on labeled regions.
C11_GroundExclusion ==
  /\ \A l \in DOMAIN results_file : ~IsGroundLabel(results_file[l].label)
  /\ \A l \in DOMAIN adjusted_results : ~IsGroundLabel(adjusted_results[l].label)

\* a ground component on a labeled region next to an emitted component
C11_Witness ==
  /\ apc = "done"
  /\ adjusted_results /= <<>>
  /\ \E c \in DOMAIN components :
       /\ IsGroundLabel(components[c].label)
       /\ \E k \in DOMAIN components[c].connection_points :
            LET pt == components[c].connection_points[k]
            IN InGrid(pt) /\ labeled_edges[<<pt[2], pt[1]>>] > 0

\* the components up to c that got a node for some connection point
EmittedUpTo(nodes_by, c) == {b \in 1..c : PositiveOf(nodes_by[b]) /= {}}

\* the line of component c, one of EmittedUpTo(nodes_by, c)
LineOf(file, nodes_by, c) == file[Cardinality(EmittedUpTo(nodes_by, c))]

Occurrences(seq, n) == Cardinality({k \in DOMAIN seq : seq[k] = n})

\* one line per component with a node, each of its nodes once
DedupFile(file, nodes_by) ==
  /\ Len(file) = Cardinality(EmittedUpTo(nodes_by, Len(nodes_by)))
  /\ \A l \in DOMAIN file :
       \A n \in Range(file[l].nodes) : Occurrences(file[l].nodes, n) = 1
  /\ \A c \in DOMAIN nodes_by :
       \A n \in PositiveOf(nodes_by[c]) :
         Occurrences(LineOf(file, nodes_by, c).nodes, n) = 1

\* C12: every line of either netlist lists each node ID at most once; a
\* component with several connection points on the same region has exactly one
\* line, and that line lists the region's node ID once.
C12_Dedup ==
  /\ DedupFile(results_file, first_nodes)
  /\ DedupFile(adjusted_results, adjusted_nodes)

\* two connection points of one component on the same region
C12_Witness ==
  /\ apc = "done"
  /\ \E c \in DOMAIN components :
       /\ NotGnd(c)
       /\ Len(components[c].connection_points) = 2
       /\ components[c].connection_points[1] /= components[c].connection_points[2]
       /\ first_nodes[c][1] > 0
       /\ first_nodes[c][1] = first_nodes[c][2]
       /\ adjusted_nodes[c][1] = adjusted_nodes[c][2]
       /\ results_file = <<[label |-> components[c].label,
                            nodes |-> <<first_nodes[c][1]>>]>>
       /\ adjusted_results = <<[label |-> components[c].label, nodes |-> <<1>>]>>

\* some connection point of component c gets the label of a region
Resolves(c) ==
  \E k \in DOMAIN components[c].connection_points :
    LET pt == components[c].connection_points[k]
    IN ~OutOfBounds(pt[1], pt[2]) /\ RegionOfPoint(pt[1], pt[2]) > 0

\* the components among those of nodes_by that are to have a line
ToEmit(nodes_by) == {c \in DOMAIN nodes_by : NotGnd(c) /\ Resolves(c)}

\* C13: a non-GND component has a line in the netlist exactly when one of its
\* connection points gets the label of a region; a component without a
\* connected node has no line, and on a mask without a wire pixel both netlists
\* are empty and the node count returned is 0.
C13_SilentDrop ==
  /\ \A c \in FirstPassed : c \in EmittedUpTo(first_nodes, c) <=> c \in ToEmit(first_nodes)
  /\ Len(results_file) = Cardinality(ToEmit(first_nodes))
  /\ \A c \in DOMAIN adjusted_nodes :
       c \in EmittedUpTo(adjusted_nodes, c) <=> c \in ToEmit(adjusted_nodes)
  /\ Len(adjusted_results) = Cardinality(ToEmit(adjusted_nodes))
  /\ \A l \in DOMAIN results_file : results_file[l].nodes /= <<>>
  /\ \A l \in DOMAIN adjusted_results : adjusted_results[l].nodes /= <<>>
  /\ (apc = "done" /\ Wire(masked_edges) = {})
       => (results_file = <<>> /\ adjusted_results = <<>> /\ num_nodes = 0)

\* of two non-GND components on a mask with wire, one is written, one dropped
C13_Witness ==
  /\ apc = "done"
  /\ Len(results_file) = 1 /\ Len(adjusted_results) = 1
  /\ \E c, b \in DOMAIN components :
       /\ NotGnd(c) /\ Resolves(c)
       /\ NotGnd(b) /\ ~Resolves(b)
       /\ PositiveOf(first_nodes[b]) = {}

\* every component dropped on a mask without wire
C13_WitnessEmptyMask ==
  /\ apc = "done"
  /\ Wire(masked_edges) = {}
  /\ \E c \in DOMAIN components : NotGnd(c) /\ InGrid(components[c].connection_points[1])
  /\ num_nodes = 0

\* no connection point outside the grid has a node in nodes_by, a component
\* with such points only has no line, and a point of the grid has a node
\* exactly when it gets the label of a region
OutsideSkipped(nodes_by) ==
  \A c \in DOMAIN nodes_by :
    NotGnd(c) =>
      LET points == components[c].connection_points
      IN /\ \A k \in DOMAIN points : ~InGrid(points[k]) => nodes_by[c][k] = 0
         /\ (\A k \in DOMAIN points : ~InGrid(points[k]))
              => c \notin EmittedUpTo(nodes_by, c)
         /\ \A k \in DOMAIN points :
              InGrid(points[k])
                => (nodes_by[c][k] > 0 <=> RegionOfPoint(points[k][1], points[k][2]) > 0)

\* C14: a connection point outside the grid (x < 0, y < 0, x >= width or
\* y >= height) contributes no node to its component, a component whose points
\* are all outside the grid has no line, and the points of the grid keep
\* their nodes.
C14_OutOfBoundsSkipped ==
  /\ OutsideSkipped(first_nodes)
  /\ OutsideSkipped(adjusted_nodes)

\* the connection points <<c, k>> with a node in nodes_by
WithNode(nodes_by) ==
  {ck \in (DOMAIN nodes_by) \X (1..MaxPoints) :
     ck[2] \in DOMAIN nodes_by[ck[1]] /\ nodes_by[ck[1]][ck[2]] > 0}

RegionOf(ck) ==
  RegionOfPoint(components[ck[1]].connection_points[ck[2]][1],
                components[ck[1]].connection_points[ck[2]][2])

\* two connection points with a node have the same node exactly when they get
\* the same region label
SameNodeIffSameRegion(nodes_by) ==
  \A a, b \in WithNode(nodes_by) :
    nodes_by[a[1]][a[2]] = nodes_by[b[1]][b[2]] <=> RegionOf(a) = RegionOf(b)

InjectiveMap(map) == \A a, b \in DOMAIN map : a /= b => map[a] /= map[b]

\* C18: in one run, two connection points that get a node get the same node ID
\* exactly when they resolve, directly or through the nearest edge, to the same
\* region label, and the region-to-node map is injective after the first pass
\* and after the renumbering.
C18_NodeRegionCorrespondence ==
  /\ SameNodeIffSameRegion(first_nodes)
  /\ SameNodeIffSameRegion(adjusted_nodes)
  /\ InjectiveMap(region_to_node)
  /\ InjectiveMap(new_region_to_node)

\* two components on two regions, one of them through the nearest edge
C18_Witness ==
  /\ apc = "done"
  /\ \E a, b \in WithNode(adjusted_nodes) :
       /\ a[1] /= b[1]
       /\ RegionOf(a) /= RegionOf(b)
       /\ FallsBack(components[a[1]].connection_points[a[2]])
       /\ first_nodes[a[1]][a[2]] /= first_nodes[b[1]][b[2]]
       /\ adjusted_nodes[a[1]][a[2]] /= adjusted_nodes[b[1]][b[2]]

\* two components at different points of one region
C18_WitnessSameRegion ==
  /\ apc = "done"
  /\ num_regions >= 2
  /\ \E a, b \in WithNode(adjusted_nodes) :
       /\ a[1] /= b[1]
       /\ components[a[1]].connection_points[a[2]]
            /= components[b[1]].connection_points[b[2]]
       /\ RegionOf(a) = RegionOf(b)
       /\ adjusted_nodes[a[1]][a[2]] = adjusted_nodes[b[1]][b[2]]

----------------------------------------------------------------------------
(* Properties of the search *)

\* the call on top of the stack is at the head of one of its two loops
AtCandidate == Running /\ Top.pc \in {"stepA", "stepB"}

\* C15: after an attempt of Phase A or Phase B has failed, the next candidate
\* of the same call is tried with the set of used test components and the node
\* mapping that were in effect before the failed attempt; so a call that
\* returns false leaves used_components as it was at the call's entry.
C15_SnapshotRestore ==
  /\ (AtCandidate /\ Top.failed)
       => /\ used_components = Top.before_used
          /\ Top.current_mapping = Top.before_mapping
  /\ AtCandidate => used_components = Top.entry_used
  /\ (Running /\ Top.pc \in {"callA", "callB"} /\ ret = "False")
       => used_components = Top.before_used \cup {Top.i}
  /\ (stack = <<>> /\ ret = "False") => used_components = {}

\* a call entered with a test component in use and a node mapped is about to
\* return false after a failed attempt, whose entries are still in the dict
\* the caller passed
C15_Witness ==
  /\ AtCandidate
  /\ Top.pc = "stepB" /\ Top.i > Len(test_netlist)
  /\ Top.failed
  /\ Top.before_used /= {}
  /\ Top.before_mapping /= EmptyDict
  /\ node_mapping /= Top.current_mapping

\* test component t maps, by position, a node of ground-truth component g to
\* another test node than mapping m holds for it
Conflicts(m, g, t) == \E k \in DOMAIN g : g[k] \in DOMAIN m /\ m[g[k]] /= t[k]

\* C16: the search does not recurse with a Phase B candidate whose node at some
\* position differs from the test node that an earlier pairing committed on the
\* current search path has fixed for the ground-truth node at that position.
C16_ConflictRejected ==
  \A d \in DOMAIN stack :
    stack[d].pc = "callB"
      => ~Conflicts(stack[d].before_mapping, ground_truth[stack[d].idx + 1],
                    test_netlist[stack[d].i])

\* the calls of backtrack a search over g ground-truth components and t test
\* components makes at most: each call recurses at most once per candidate
\* and phase
RECURSIVE MaxCalls(_, _)
MaxCalls(g, t) == IF g = 0 THEN 1 ELSE 1 + 2 * t * MaxCalls(g - 1, t)

\* a call takes one step at its entry, two per candidate and phase at most,
\* one between the phases and one to return false; one step ends the search
StepBound ==
  MaxCalls(Len(ground_truth), Len(test_netlist)) * (4 * Len(test_netlist) + 3) + 1

\* a candidate the search recurses with: unused, and a set match or of the
\* same node count
Candidate(idx, tc, used) ==
  /\ tc \notin used
  /\ \/ Range(ground_truth[idx + 1]) = Range(test_netlist[tc])
     \/ Len(ground_truth[idx + 1]) = Len(test_netlist[tc])

\* some branch from index idx with the test components of used taken reaches
\* the end of the ground-truth list
RECURSIVE Reaches(_, _)
Reaches(idx, used) ==
  IF idx >= Len(ground_truth) THEN TRUE
  ELSE \E tc \in DOMAIN test_netlist :
         Candidate(idx, tc, used) /\ Reaches(idx + 1, used \cup {tc})

\* C17: the search ends with a boolean after a bounded number of steps, never
\* more than one call deeper than the number of ground-truth components; once a
\* call has found the index past the last ground-truth component every pending
\* call only returns true, and the result is false exactly when no branch
\* reaches the end of the ground-truth list.
C17_Termination ==
  /\ result \in {"running", "True", "False"}
  /\ result = "running" => ENABLED VNext
  /\ steps <= StepBound
  /\ Len(stack) <= Len(ground_truth) + 1
  /\ (Running /\ Top.pc = "entry" /\ Top.idx >= Len(ground_truth)) => ENABLED BaseCase
  /\ ret = "True" => \A d \in DOMAIN stack : stack[d].pc \in {"callA", "callB"}
  /\ result /= "running" => (result = "False" <=> ~Reaches(0, {}))

\* after a failed attempt of the outermost call the index passes the last of
\* three ground-truth components
C17_Witness ==
  /\ Running
  /\ Len(ground_truth) = MaxComps
  /\ Len(stack) = Len(ground_truth) + 1
  /\ Top.pc = "entry"
  /\ stack[1].failed

\* the search ends with false after backtracking
C17_WitnessFalse ==
  /\ result = "False"
  /\ Len(ground_truth) = MaxComps
  /\ Len(test_netlist) = MaxComps
  /\ steps > 20

\* an assignment of distinct test components to the ground-truth components
\* pairing node lists of equal node sets or of equal length
Assignable(gt, tn) ==
  \E f \in Injections(DOMAIN gt, DOMAIN tn) :
    \A c \in DOMAIN gt :
      Range(gt[c]) = Range(tn[f[c]]) \/ Len(gt[c]) = Len(tn[f[c]])

\* C19: locked_nodes is empty in every state of the search, and
\* compare_netlists returns True exactly when distinct test components can be
\* assigned to the ground-truth components so that every pair has equal node-ID
\* sets or node lists of equal length; so it returns False when the test
\* netlist has fewer components and True for an empty ground truth.
C19_Characterisation ==
  /\ locked_nodes = EmptyDict
  /\ result \in {"True", "False"}
       => /\ result = "True" <=> Assignable(ground_truth, test_netlist)
          /\ Len(test_netlist) < Len(ground_truth) => result = "False"
          /\ ground_truth = <<>> => result = "True"

\* True for netlists that are not equivalent, with a test component to spare
C19_Witness ==
  /\ result = "True"
  /\ Len(ground_truth) = 2 /\ Len(test_netlist) = 3
  /\ NoNodeTwice(ground_truth) /\ NoNodeTwice(test_netlist)
  /\ ~Equivalent(ground_truth, test_netlist)
  /\ \E c \in DOMAIN ground_truth :
       \A tc \in DOMAIN test_netlist :
         Range(ground_truth[c]) /= Range(test_netlist[tc])

\* False although the test netlist has as many components
C19_WitnessFalse ==
  /\ result = "False"
  /\ Len(ground_truth) = MaxComps /\ Len(test_netlist) = MaxComps

====
